---------------------------- MODULE Spec2Model ----------------------------
(***************************************************************************)
(* Model of src/app.py: the Schedule A1 extractor.                         *)
(*                                                                         *)
(* Page text and lines are real strings; the regular expressions and the   *)
(* str methods of the source are operators over their characters.          *)
(***************************************************************************)
EXTENDS Integers, Sequences, FiniteSets, TLC

(***************************************************************************)
(* Characters and the str methods the source uses.                         *)
(***************************************************************************)
Char(s, k) == IF k >= 1 /\ k <= Len(s) THEN SubSeq(s, k, k) ELSE ""

DigitChars == {"0", "1", "2", "3", "4", "5", "6", "7", "8", "9"}

UpperSeq == "ABCDEFGHIJKLMNOPQRSTUVWXYZ"

LowerSeq == "abcdefghijklmnopqrstuvwxyz"

UpperChars == {SubSeq(UpperSeq, k, k) : k \in 1..Len(UpperSeq)}

SpaceChars == {" ", "\t", "\n", "\r", "\f"}

AmountChars == DigitChars \cup {","}

\* The last index e >= k-1 with every character of s[k..e] in class C.
RunEnd(s, k, C) ==
    CHOOSE e \in (k - 1)..Len(s) :
        /\ \A t \in k..e : Char(s, t) \in C
        /\ (e = Len(s) \/ Char(s, e + 1) \notin C)

\* The first index e <= k+1 with every character of s[e..k] in class C.
RunStart(s, k, C) ==
    CHOOSE b \in 1..(k + 1) :
        /\ \A t \in b..k : Char(s, t) \in C
        /\ (b = 1 \/ Char(s, b - 1) \notin C)

\* str.strip()
Strip(s) ==
    LET b == RunEnd(s, 1, SpaceChars) + 1
    IN  IF b > Len(s) THEN ""
        ELSE SubSeq(s, b, RunStart(s, Len(s), SpaceChars) - 1)

\* s[a:b] of Python, by 1-based inclusive indices: clamped to the string.
Slice(s, a, b) ==
    LET lo == IF a < 1 THEN 1 ELSE a
        hi == IF b > Len(s) THEN Len(s) ELSE b
    IN  IF lo > hi THEN "" ELSE SubSeq(s, lo, hi)

\* pattern in text
Contains(s, pat) ==
    \E k \in 1..(Len(s) - Len(pat) + 1) : SubSeq(s, k, k + Len(pat) - 1) = pat

\* The first index at or after `from` where pat occurs in s, 0 when none.
RECURSIVE FindFrom(_, _, _)
FindFrom(s, pat, from) ==
    IF from + Len(pat) - 1 > Len(s) THEN 0
    ELSE IF SubSeq(s, from, from + Len(pat) - 1) = pat THEN from
    ELSE FindFrom(s, pat, from + 1)

LowerChar(c) ==
    IF c \in UpperChars
    THEN LET k == CHOOSE k \in 1..Len(UpperSeq) : SubSeq(UpperSeq, k, k) = c
         IN  SubSeq(LowerSeq, k, k)
    ELSE c

\* str.lower(): character by character, the string halved at each level.
RECURSIVE Lower(_)
Lower(s) ==
    IF Len(s) = 0 THEN ""
    ELSE IF Len(s) = 1 THEN LowerChar(s)
    ELSE Lower(SubSeq(s, 1, Len(s) \div 2)) \o Lower(SubSeq(s, Len(s) \div 2 + 1, Len(s)))

\* str.split(sep) for a one-character separator: the pieces, empty ones kept.
RECURSIVE SplitOn(_, _)
SplitOn(s, sep) ==
    LET k == FindFrom(s, sep, 1)
    IN  IF k = 0 THEN <<s>>
        ELSE <<SubSeq(s, 1, k - 1)>> \o SplitOn(SubSeq(s, k + 1, Len(s)), sep)

\* str.split(): the whitespace-separated tokens.
RECURSIVE SplitWords(_)
SplitWords(s) ==
    LET b == RunEnd(s, 1, SpaceChars) + 1
    IN  IF b > Len(s) THEN << >>
        ELSE LET e == RunEnd(s, b, {Char(s, t) : t \in 1..Len(s)} \ SpaceChars)
             IN  <<SubSeq(s, b, e)>> \o SplitWords(SubSeq(s, e + 1, Len(s)))

\* str.split(maxsplit=1): the first token, then the rest without its leading
\* whitespace (the rest is absent when nothing follows the first token).
SplitFirstWord(s) ==
    LET b == RunEnd(s, 1, SpaceChars) + 1
    IN  IF b > Len(s) THEN << >>
        ELSE LET e == RunEnd(s, b, {Char(s, t) : t \in 1..Len(s)} \ SpaceChars)
                 r == RunEnd(s, e + 1, SpaceChars) + 1
             IN  IF r > Len(s) THEN <<SubSeq(s, b, e)>>
                 ELSE <<SubSeq(s, b, e), SubSeq(s, r, Len(s))>>

\* str.replace(pat, ""): every non-overlapping occurrence, left to right.
RECURSIVE RemoveAll(_, _)
RemoveAll(s, pat) ==
    LET k == FindFrom(s, pat, 1)
    IN  IF k = 0 THEN s
        ELSE SubSeq(s, 1, k - 1) \o RemoveAll(SubSeq(s, k + Len(pat), Len(s)), pat)

(***************************************************************************)
(* The configured phrases.                                                 *)
(***************************************************************************)
FOOTER_PATTERNS ==
    << "provided by Texas Ethics Commission",
       "www.ethics.state.tx.us",
       "Version V1.1",
       "Forms provided by",
       "Texas Ethics Commission" >>

HEADER_PATTERNS ==
    << "Full name of contributor",
       "out-of-state PAC",
       "ID#:_________________________",
       "Amount of Contribution ($)",
       "Date",
       "Contributor address",
       "Principal occupation",
       "Job title",
       "See Instructions",
       "Employer",
       "SCHEDULE",
       "MONETARY POLITICAL CONTRIBUTIONS" >>

SectionMarker == "MONETARY POLITICAL CONTRIBUTIONS"

NoData == "No Data"

(***************************************************************************)
(* The regular expressions.                                                *)
(***************************************************************************)
\* \d{2}/\d{2}/\d{4} matches s[p..p+9].
DateAt(s, p) ==
    /\ p >= 1
    /\ p + 9 <= Len(s)
    /\ \A t \in {p, p + 1, p + 3, p + 4, p + 6, p + 7, p + 8, p + 9} :
          Char(s, t) \in DigitChars
    /\ Char(s, p + 2) = "/"
    /\ Char(s, p + 5) = "/"

\* [\d,]+\.\d{2} matched from index d: the index of its last character, 0 when
\* it does not match.  The greedy run can give nothing back: "." is not in it.
AmountEnd(s, d) ==
    LET r == RunEnd(s, d, AmountChars)
    IN  IF /\ r >= d
           /\ Char(s, r + 1) = "."
           /\ Char(s, r + 2) \in DigitChars
           /\ Char(s, r + 3) \in DigitChars
        THEN r + 3
        ELSE 0

\* (\d{2}/\d{2}/\d{4})\s+(.+?)\s+\$([\d,]+\.\d{2}) with the date at p, group 2
\* at s[n..m]: the whitespace before n and after m, then "$" and the amount.
AnchorFits(s, p, n, m) ==
    /\ DateAt(s, p)
    /\ n >= p + 11
    /\ \A t \in (p + 10)..(n - 1) : Char(s, t) \in SpaceChars
    /\ m >= n
    /\ Char(s, m + 1) \in SpaceChars
    /\ LET d == RunEnd(s, m + 1, SpaceChars) + 1
       IN  Char(s, d) = "$" /\ AmountEnd(s, d + 1) > 0

\* re.search of the anchor pattern: the leftmost date, then the longest
\* whitespace run before group 2 (\s+ is greedy), then the shortest group 2
\* (.+? is lazy).  << >> when the line does not match.
AnchorSearch(s) ==
    LET P == {p \in 1..Len(s) :
                 DateAt(s, p) /\ \E n \in 1..Len(s), m \in 1..Len(s) : AnchorFits(s, p, n, m)}
    IN  IF P = {} THEN << >>
        ELSE LET p == CHOOSE q \in P : \A r \in P : q <= r
                 N == {n \in 1..Len(s) : \E m \in 1..Len(s) : AnchorFits(s, p, n, m)}
                 n == CHOOSE q \in N : \A r \in N : q >= r
                 M == {m \in 1..Len(s) : AnchorFits(s, p, n, m)}
                 m == CHOOSE q \in M : \A r \in M : q <= r
                 d == RunEnd(s, m + 1, SpaceChars) + 1
             IN  << [date   |-> SubSeq(s, p, p + 9),
                     name   |-> SubSeq(s, n, m),
                     amount |-> SubSeq(s, d + 1, AmountEnd(s, d + 1))] >>

\* re.search(r'\d{2}/\d{2}/\d{4}\s+.*?\$[\d,]+\.\d{2}', line): the shape the
\* two forward scans look for.
NextContributionShape(s) ==
    \E p \in 1..Len(s) :
        /\ DateAt(s, p)
        /\ Char(s, p + 10) \in SpaceChars
        /\ \E d \in (p + 11)..Len(s) : Char(s, d) = "$" /\ AmountEnd(s, d + 1) > 0

\* re.search(r'\d{2}/\d{2}/\d{4}', line)
HasDate(s) == \E p \in 1..Len(s) : DateAt(s, p)

\* ',' in line and re.search(r'[A-Z]{2}\s+\d', line)
AddressShape(s) ==
    /\ Contains(s, ",")
    /\ \E k \in 1..Len(s) :
          /\ Char(s, k) \in UpperChars
          /\ Char(s, k + 1) \in UpperChars
          /\ Char(s, k + 2) \in SpaceChars
          /\ Char(s, RunEnd(s, k + 2, SpaceChars) + 1) \in DigitChars

\* re.sub(r'\(ID#:.*?\)', '', name)
RECURSIVE StripIdFragment(_)
StripIdFragment(s) ==
    LET k == FindFrom(s, "(ID#:", 1)
        c == IF k = 0 THEN 0 ELSE FindFrom(s, ")", k + 5)
    IN  IF c = 0 THEN s
        ELSE SubSeq(s, 1, k - 1) \o StripIdFragment(SubSeq(s, c + 1, Len(s)))

\* re.match(r'^\d+\.\d+$', text)
PageNumberShape(s) ==
    LET r == RunEnd(s, 1, DigitChars)
    IN  /\ r >= 1
        /\ Char(s, r + 1) = "."
        /\ r + 2 <= Len(s)
        /\ RunEnd(s, r + 2, DigitChars) = Len(s)

\* re.match(r'^Sch:.*Rpt:', text)
ReportShape(s) == Slice(s, 1, 4) = "Sch:" /\ FindFrom(s, "Rpt:", 5) > 0

\* re.match(r'^\d+ of \d+$', text)
PageCounterShape(s) ==
    LET r == RunEnd(s, 1, DigitChars)
    IN  /\ r >= 1
        /\ Slice(s, r + 1, r + 4) = " of "
        /\ r + 5 <= Len(s)
        /\ RunEnd(s, r + 5, DigitChars) = Len(s)

(***************************************************************************)
(* The line classifier.                                                    *)
(***************************************************************************)
is_footer_text(text) ==
    /\ text # ""
    /\ \E k \in 1..Len(FOOTER_PATTERNS) :
          Contains(Lower(text), Lower(FOOTER_PATTERNS[k]))

is_header_text(text) ==
    /\ text # ""
    /\ \E k \in 1..Len(HEADER_PATTERNS) : Contains(text, HEADER_PATTERNS[k])

should_skip_line(text) ==
    \/ text = ""
    \/ Strip(text) = ""
    \/ is_footer_text(text)
    \/ is_header_text(text)
    \/ PageNumberShape(text)
    \/ ReportShape(text)
    \/ PageCounterShape(text)

Min(a, b) == IF a <= b THEN a ELSE b

None == << >>

Some(v) == <<v>>

(***************************************************************************)
(* The documents checked.  A document is the sequence of its pages' texts  *)
(* as page.extract_text() gives them: None, or a string of lines.          *)
(***************************************************************************)
MaxScanLines == 10

MaxFieldLines == 2

MaxGap == 20

MaxPages == 2

RECURSIVE JoinLines(_)
JoinLines(ls) ==
    IF Len(ls) = 0 THEN ""
    ELSE IF Len(ls) = 1 THEN ls[1]
    ELSE ls[1] \o "\n" \o JoinLines(Tail(ls))

SeqsUpTo(S, n) == UNION {[1..k -> S] : k \in 0..n}

Repeat(line, n) == [k \in 1..n |-> line]

AnchorJane == "01/15/2023 Jane Doe $500.00"

AnchorJohn == "02/01/2023 John Smith (ID#: 12) $1,000.00"

BareAmountLine == "03/05/2023 Ann Lee 250.00"

\* A single relevant page: the section title, then every sequence of anchors
\* and plain lines.
ScanPool == {AnchorJane, "Engineer"}

ScanDocs ==
    {<<Some(JoinLines(<<SectionMarker>> \o ls))>> : ls \in SeqsUpTo(ScanPool, MaxScanLines)}

\* A single relevant page: one anchor and every short sequence of the lines
\* the field resolver tells apart.
FieldPool ==
    { AnchorJohn, BareAmountLine, "04/01/2023 $75.00",
      "Austin, TX 78701", "PO BOX 12, Austin", "12 Main St, Austin, TX 78701",
      "Engineer", "  Self Employed\t", "", "()",
      "www.ethics.state.tx.us", "FORMS PROVIDED BY", "Job title",
      "1.0", "3 of 23", "Sch: 1/5 Rpt: 4/23" }

FieldDocs ==
    {<<Some(JoinLines(<<SectionMarker, AnchorJane>> \o ls))>> :
        ls \in SeqsUpTo(FieldPool, MaxFieldLines)}

\* A single relevant page: an anchor, a run of plain lines, and possibly a
\* second anchor with a plain line after it.
GapDocs ==
    {<<Some(JoinLines(<<SectionMarker, AnchorJane>> \o Repeat("Retired", g) \o tail))>> :
        g \in 0..MaxGap, tail \in {<< >>, <<AnchorJohn, "Teacher">>}}

PageLines ==
    { "Cover Sheet", "Monetary Political Contributions", "Acme Corp", "Nurse",
      "Dallas, TX 75201", "Waco, TX 76701", "Retired", "Teacher" }

\* Several pages: absent and empty text, pages without the section title,
\* and relevant pages that repeat a contribution.
PageKinds ==
    { None,
      Some(""),
      Some(JoinLines(<<"Cover Sheet", AnchorJane, "Austin, TX 78701">>)),
      Some(JoinLines(<<"Monetary Political Contributions", AnchorJohn>>)),
      Some(JoinLines(<<SectionMarker>>)),
      Some(JoinLines(<<SectionMarker, AnchorJane, "Austin, TX 78701", "Engineer", "Acme Corp">>)),
      Some(JoinLines(<<SectionMarker, AnchorJane, "Dallas, TX 75201", "Nurse">>)),
      Some(JoinLines(<<SectionMarker, AnchorJohn, AnchorJane, "Waco, TX 76701">>)) }

PageDocs == SeqsUpTo(PageKinds, MaxPages)

Documents == ScanDocs \cup FieldDocs \cup GapDocs \cup PageDocs

(***************************************************************************)
(* What the scan asks of a single line, evaluated once per line of the     *)
(* documents above and looked up from then on (a line that is not among    *)
(* them is evaluated in place).                                            *)
(***************************************************************************)
KnownLines ==
    {Strip(l) : l \in ScanPool \cup FieldPool \cup PageLines \cup {SectionMarker}}

AnchorTable == [l \in KnownLines |-> AnchorSearch(l)]

NextContributionTable == [l \in KnownLines |-> NextContributionShape(l)]

AddressTable == [l \in KnownLines |-> AddressShape(l)]

SkipTable == [l \in KnownLines |-> should_skip_line(l)]

DatedAmountTable == [l \in KnownLines |-> HasDate(l) /\ Contains(l, "$")]

\* date_match = re.search(<anchor pattern>, line)
DateMatch(line) ==
    IF line \in KnownLines THEN AnchorTable[line] ELSE AnchorSearch(line)

\* re.search(<next contribution pattern>, lines[j])
IsNextContribution(line) ==
    IF line \in KnownLines THEN NextContributionTable[line]
    ELSE NextContributionShape(line)

\* ',' in test_line and re.search(r'[A-Z]{2}\s+\d', test_line)
IsAddressLine(line) ==
    IF line \in KnownLines THEN AddressTable[line] ELSE AddressShape(line)

\* should_skip_line(test_line)
IsSkippedLine(line) ==
    IF line \in KnownLines THEN SkipTable[line] ELSE should_skip_line(line)

\* re.search(r'\d{2}/\d{2}/\d{4}', test_line) and '$' in test_line
IsDatedAmountLine(line) ==
    IF line \in KnownLines THEN DatedAmountTable[line]
    ELSE HasDate(line) /\ Contains(line, "$")

(***************************************************************************)
(* The scan of one page: lines and cursors are 1-based here, so the        *)
(* source's lines[i] is lines[i] with i one larger, and a range(a, b) of   *)
(* the source is a..(b - 1) with both ends one larger.                     *)
(***************************************************************************)
\* for j in range(1, 4)
AddressLookahead == 3

\* search_end = min(i + 15, len(lines))
SearchWindow == 15

\* for j in range(i + 1, min(i + 20, len(lines)))
NextContributionWindow == 20

\* for j in range(i + 1, min(i + 10, len(lines)))
SkipWindow == 10

\* skip_amount = 5
DefaultSkip == 5

\* [line.strip() for line in text.split('\n') if line.strip()]
CompactLines(text) ==
    LET raw == SplitOn(text, "\n")
        RECURSIVE Keep(_)
        Keep(k) ==
            IF k > Len(raw) THEN << >>
            ELSE IF Strip(raw[k]) # "" THEN <<Strip(raw[k])>> \o Keep(k + 1)
                 ELSE Keep(k + 1)
    IN  Keep(1)

\* IsScheduleA1Page with the phrase compared without regard to case.
IsScheduleA1PageAnyCase(text) ==
    /\ text # None
    /\ text[1] # ""
    /\ Contains(Lower(text[1]), Lower(SectionMarker))

\* text and "MONETARY POLITICAL CONTRIBUTIONS" in text, text None or a string.
IsScheduleA1Page(text) ==
    /\ text # None
    /\ text[1] # ""
    /\ Contains(text[1], SectionMarker)

\* The smallest member of a non-empty set of indices.
First(S) == CHOOSE k \in S : \A h \in S : k <= h

\* The line taken as the address of the anchor at i: the first of the next
\* three lines with the address shape, 0 when there is none.
AddressIndex(lines, i) ==
    LET hits == {j \in (i + 1)..(i + AddressLookahead) :
                    j <= Len(lines) /\ IsAddressLine(lines[j])}
    IN  IF hits = {} THEN 0 ELSE First(hits)

\* City, State, Zip of an address line.
ParseAddress(address) ==
    LET addr_parts == SplitOn(address, ",")
        state_zip  == Strip(addr_parts[2])
        sz_parts   == SplitWords(state_zip)
    IN  IF Len(addr_parts) >= 2
        THEN [city  |-> Strip(addr_parts[1]),
              state |-> IF Len(sz_parts) >= 2 THEN sz_parts[1] ELSE NoData,
              zip   |-> IF Len(sz_parts) >= 2 THEN sz_parts[2] ELSE NoData]
        ELSE [city |-> NoData, state |-> NoData, zip |-> NoData]

\* The first line with the next contribution's shape in i+1 .. i+window-1,
\* 0 when there is none.
NextContributionIndex(lines, i, window) ==
    LET hits == {j \in (i + 1)..(Min(i + window, Len(lines) + 1) - 1) :
                    IsNextContribution(lines[j])}
    IN  IF hits = {} THEN 0 ELSE First(hits)

\* SearchEnd without the narrowing to the next contribution.
SearchEndNoNarrowing(lines, i) == Min(i + SearchWindow, Len(lines) + 1)

\* search_end, exclusive: min(i + 15, len(lines)), narrowed to the next
\* contribution found within 20 lines.
SearchEnd(lines, i) ==
    LET search_end == Min(i + SearchWindow, Len(lines) + 1)
        next_contribution_idx == NextContributionIndex(lines, i, NextContributionWindow)
    IN  IF next_contribution_idx = 0 THEN search_end
        ELSE Min(search_end, next_contribution_idx)

\* IsPotentialDataLine without the should_skip_line test.
IsPotentialDataLineNoSkip(test_line, address) ==
    /\ test_line # address
    /\ ~IsDatedAmountLine(test_line)
    /\ ~IsAddressLine(test_line)

\* Whether a line of the search window goes into potential_data_lines.
IsPotentialDataLine(test_line, address) ==
    /\ ~IsSkippedLine(test_line)
    /\ test_line # address
    /\ ~IsDatedAmountLine(test_line)
    /\ ~IsAddressLine(test_line)

\* The indices of potential_data_lines, in order.
PotentialDataIndices(lines, i, address) ==
    LET search_end == SearchEnd(lines, i)
        RECURSIVE Collect(_)
        Collect(j) ==
            IF j >= search_end THEN << >>
            ELSE IF IsPotentialDataLine(lines[j], address)
                 THEN <<j>> \o Collect(j + 1)
                 ELSE Collect(j + 1)
    IN  Collect(i + 1)

\* occupation and employer out of potential_data_lines, before the cleanup.
AssignOccupationEmployer(potential_data_lines) ==
    IF Len(potential_data_lines) = 0
    THEN [occupation |-> NoData, employer |-> NoData]
    ELSE IF Len(potential_data_lines) = 1
    THEN LET data_line == potential_data_lines[1]
             parts     == SplitFirstWord(data_line)
         IN  IF Contains(data_line, " ")
             THEN IF Len(parts) = 2
                  THEN [occupation |-> parts[1], employer |-> parts[2]]
                  ELSE [occupation |-> NoData, employer |-> NoData]
             ELSE [occupation |-> data_line, employer |-> NoData]
    ELSE [occupation |-> potential_data_lines[1],
          employer   |-> potential_data_lines[2]]

\* The final cleanup of occupation or of employer.
FinalCleanup(value) ==
    LET RECURSIVE StripHeaders(_, _)
        StripHeaders(v, k) ==
            IF k > Len(HEADER_PATTERNS) THEN v
            ELSE StripHeaders(IF v # "" THEN Strip(RemoveAll(v, HEADER_PATTERNS[k]))
                              ELSE v, k + 1)
        cleaned == StripHeaders(value, 1)
    IN  IF cleaned \in {"()", "(", ")"} THEN NoData
        ELSE IF cleaned = "" \/ Strip(cleaned) = "" THEN NoData
        ELSE cleaned

\* SkipAmount with the forward scan cut to three lines.
SkipAmountShortWindow(lines, i) ==
    LET j == NextContributionIndex(lines, i, 3)
    IN  IF j = 0 THEN DefaultSkip ELSE j - i

\* SkipAmount with the forward scan starting at the anchor itself.
SkipAmountFromCursor(lines, i) ==
    LET j == NextContributionIndex(lines, i - 1, SkipWindow)
    IN  IF j = 0 THEN DefaultSkip ELSE j - i

\* i += skip_amount
SkipAmount(lines, i) ==
    LET j == NextContributionIndex(lines, i, SkipWindow)
    IN  IF j = 0 THEN DefaultSkip ELSE j - i

\* The record appended for the anchor at lines[i], whose match is date_match.
Contribution(lines, i, date_match, page_num) ==
    LET a       == AddressIndex(lines, i)
        address == IF a = 0 THEN NoData ELSE lines[a]
        parsed  == IF a = 0 THEN [city |-> NoData, state |-> NoData, zip |-> NoData]
                   ELSE ParseAddress(address)
        cand    == PotentialDataIndices(lines, i, address)
        oe      == AssignOccupationEmployer([k \in 1..Len(cand) |-> lines[cand[k]]])
    IN  [Date            |-> date_match.date,
         ContributorName |-> Strip(StripIdFragment(date_match.name)),
         Address         |-> address,
         City            |-> parsed.city,
         State           |-> parsed.state,
         Zip             |-> parsed.zip,
         Occupation      |-> FinalCleanup(oe.occupation),
         Employer        |-> FinalCleanup(oe.employer),
         Amount          |-> "$" \o date_match.amount,
         Page            |-> page_num + 1]

\* DedupKey with the address in the key.
DedupKeyWithAddress(contrib) ==
    <<contrib.Date, contrib.ContributorName, contrib.Amount, contrib.Address>>

\* key = (contrib['Date'], contrib['Contributor Name'], contrib['Amount'])
DedupKey(contrib) == <<contrib.Date, contrib.ContributorName, contrib.Amount>>

\* The "Remove duplicates" loop.
RemoveDuplicates(contributions) ==
    LET RECURSIVE Loop(_, _, _)
        Loop(k, seen, unique_contributions) ==
            IF k > Len(contributions) THEN unique_contributions
            ELSE IF DedupKey(contributions[k]) \notin seen
                 THEN Loop(k + 1, seen \cup {DedupKey(contributions[k])},
                           Append(unique_contributions, contributions[k]))
                 ELSE Loop(k + 1, seen, unique_contributions)
    IN  Loop(1, {}, << >>)

\* str(e) of the exception caught.
ErrorTexts == {"", "No /Root object! - Is this really a PDF?"}

(***************************************************************************)
(* extract_schedule_a1_from_pdf as a state machine.                        *)
(***************************************************************************)
VARIABLES
    pdf,                 \* the pages' texts
    pc,                  \* open, find, process, scan, done
    page_num,            \* the page at hand, 0-based as in the source
    schedule_a1_pages,   \* the relevant pages found
    next_page,           \* the position in schedule_a1_pages of the second loop
    lines,               \* the compacted lines of the page being scanned
    i,                   \* the scan cursor
    all_contributions,   \* the records appended so far
    result,              \* the first value returned
    error,               \* the second value returned
    history,             \* per record: its page, anchor line, address line, candidates
    scanned,             \* the pages whose lines were scanned
    raised               \* whether the except clause ran

vars == <<pdf, pc, page_num, schedule_a1_pages, next_page, lines, i,
          all_contributions, result, error, history, scanned, raised>>

Init ==
    /\ pdf \in Documents
    /\ pc = "open"
    /\ page_num = 0
    /\ schedule_a1_pages = << >>
    /\ next_page = 1
    /\ lines = << >>
    /\ i = 1
    /\ all_contributions = << >>
    /\ result = None
    /\ error = None
    /\ history = << >>
    /\ scanned = {}
    /\ raised = FALSE

\* with pdfplumber.open(pdf_file) as pdf
Open ==
    /\ pc = "open"
    /\ pc' = "find"
    /\ UNCHANGED <<pdf, page_num, schedule_a1_pages, next_page, lines, i,
                   all_contributions, result, error, history, scanned, raised>>

\* One iteration of the "Find Schedule A1 pages" loop.
FindPage ==
    /\ pc = "find"
    /\ page_num < Len(pdf)
    /\ schedule_a1_pages' =
          IF IsScheduleA1Page(pdf[page_num + 1])
          THEN Append(schedule_a1_pages, page_num)
          ELSE schedule_a1_pages
    /\ page_num' = page_num + 1
    /\ UNCHANGED <<pdf, pc, next_page, lines, i, all_contributions, result,
                   error, history, scanned, raised>>

\* if not schedule_a1_pages: return None, "No Schedule A1 data found in the PDF"
ReturnNoPages ==
    /\ pc = "find"
    /\ page_num = Len(pdf)
    /\ schedule_a1_pages = << >>
    /\ result' = None
    /\ error' = Some("No Schedule A1 data found in the PDF")
    /\ pc' = "done"
    /\ UNCHANGED <<pdf, page_num, schedule_a1_pages, next_page, lines, i,
                   all_contributions, history, scanned, raised>>

\* The first loop ends with relevant pages found.
BeginProcess ==
    /\ pc = "find"
    /\ page_num = Len(pdf)
    /\ schedule_a1_pages # << >>
    /\ pc' = "process"
    /\ next_page' = 1
    /\ UNCHANGED <<pdf, page_num, schedule_a1_pages, lines, i,
                   all_contributions, result, error, history, scanned, raised>>

\* for page_num in schedule_a1_pages: the page's text, split and cleaned.
ProcessPage ==
    /\ pc = "process"
    /\ next_page <= Len(schedule_a1_pages)
    /\ page_num' = schedule_a1_pages[next_page]
    /\ lines' = CompactLines(pdf[schedule_a1_pages[next_page] + 1][1])
    /\ i' = 1
    /\ scanned' = scanned \cup {schedule_a1_pages[next_page]}
    /\ pc' = "scan"
    /\ UNCHANGED <<pdf, schedule_a1_pages, next_page, all_contributions,
                   result, error, history, raised>>

\* while i < len(lines), the line is no anchor: i += 1
ScanOther ==
    /\ pc = "scan"
    /\ i <= Len(lines)
    /\ DateMatch(lines[i]) = << >>
    /\ i' = i + 1
    /\ UNCHANGED <<pdf, pc, page_num, schedule_a1_pages, next_page, lines,
                   all_contributions, result, error, history, scanned, raised>>

\* while i < len(lines), the line is an anchor: append its record, skip ahead.
ScanAnchor ==
    /\ pc = "scan"
    /\ i <= Len(lines)
    /\ DateMatch(lines[i]) # << >>
    /\ LET date_match == DateMatch(lines[i])[1]
           a          == AddressIndex(lines, i)
       IN  /\ all_contributions' =
                 Append(all_contributions, Contribution(lines, i, date_match, page_num))
           /\ history' =
                 Append(history,
                        [page       |-> page_num,
                         line       |-> i,
                         address    |-> a,
                         candidates |-> PotentialDataIndices(
                                            lines, i, IF a = 0 THEN NoData ELSE lines[a])])
    /\ i' = i + SkipAmount(lines, i)
    /\ UNCHANGED <<pdf, pc, page_num, schedule_a1_pages, next_page, lines,
                   result, error, scanned, raised>>

\* The while loop ends: on to the next relevant page.
EndPage ==
    /\ pc = "scan"
    /\ i > Len(lines)
    /\ next_page' = next_page + 1
    /\ pc' = "process"
    /\ UNCHANGED <<pdf, page_num, schedule_a1_pages, lines, i,
                   all_contributions, result, error, history, scanned, raised>>

\* Remove duplicates; return unique_contributions, None
ReturnContributions ==
    /\ pc = "process"
    /\ next_page > Len(schedule_a1_pages)
    /\ result' = Some(RemoveDuplicates(all_contributions))
    /\ error' = None
    /\ pc' = "done"
    /\ UNCHANGED <<pdf, page_num, schedule_a1_pages, next_page, lines, i,
                   all_contributions, history, scanned, raised>>

\* ErrorReturn handing back the records appended before the error.
ErrorReturnPartial(contributions, text) ==
    [result |-> Some(contributions), error |-> Some("Error processing PDF: " \o text)]

\* The value returned by the except clause.
ErrorReturn(contributions, text) ==
    [result |-> None, error |-> Some("Error processing PDF: " \o text)]

\* except Exception as e: an error raised anywhere inside the try block.
Fail ==
    /\ pc \in {"open", "find", "process", "scan"}
    /\ \E text \in ErrorTexts :
          /\ result' = ErrorReturn(all_contributions, text).result
          /\ error' = ErrorReturn(all_contributions, text).error
    /\ pc' = "done"
    /\ raised' = TRUE
    /\ UNCHANGED <<pdf, page_num, schedule_a1_pages, next_page, lines, i,
                   all_contributions, history, scanned>>

Next ==
    \/ Open
    \/ FindPage
    \/ ReturnNoPages
    \/ BeginProcess
    \/ ProcessPage
    \/ ScanOther
    \/ ScanAnchor
    \/ EndPage
    \/ ReturnContributions
    \/ Fail

Spec == Init /\ [][Next]_vars

(***************************************************************************)
(* Properties.                                                             *)
(***************************************************************************)
\* The records appended for line k of page p.
RecordsAt(p, k) ==
    {h \in 1..Len(history) : history[h].page = p /\ history[h].line = k}

\* The records appended for the page being scanned; its lines are `lines`.
OnPage == {h \in 1..Len(history) : history[h].page = page_num}

Returned == pc = "done" /\ ~raised /\ result # None

IsAnchor(line) == DateMatch(line) # << >>

ExpectedCount(line) == IF IsAnchor(line) THEN 1 ELSE 0

\* C1: the scan appends exactly one record per anchor line and none for any
\* other line: during the scan of a page this holds of every line the cursor
\* has passed (and no record exists for a line at or after the cursor), and at
\* the return it holds of every line of every relevant page.
C1_OneRecordPerAnchorLine ==
    /\ Len(history) = Len(all_contributions)
    /\ pc = "scan" =>
          \A k \in 1..Len(lines) :
              Cardinality(RecordsAt(page_num, k)) =
                  IF k < i THEN ExpectedCount(lines[k]) ELSE 0
    /\ Returned =>
          \A p \in 0..(Len(pdf) - 1) :
              LET text == pdf[p + 1]
                  ls   == IF text # None /\ Contains(text[1], SectionMarker)
                          THEN CompactLines(text[1]) ELSE << >>
              IN  /\ \A k \in 1..Len(ls) :
                        Cardinality(RecordsAt(p, k)) = ExpectedCount(ls[k])
                  /\ \A h \in 1..Len(history) :
                        history[h].page = p => history[h].line \in 1..Len(ls)

\* C1 witness: a page returned with three records, two of them on adjacent
\* lines and two of them more than DefaultSkip lines apart.
C1_Witness ==
    /\ Returned
    /\ \E a, b, c \in 1..Len(history) :
          /\ history[a].page = history[b].page
          /\ history[b].page = history[c].page
          /\ history[b].line = history[a].line + 1
          /\ history[c].line > history[b].line + DefaultSkip

\* The indices of the first occurrence of each key.
FirstOccurrences(contributions) ==
    {k \in 1..Len(contributions) :
        \A j \in 1..(k - 1) :
            <<contributions[j].Date, contributions[j].ContributorName,
              contributions[j].Amount>>
            # <<contributions[k].Date, contributions[k].ContributorName,
                contributions[k].Amount>>}

\* The n-th smallest member of a set of indices.
Nth(K, n) == CHOOSE k \in K : Cardinality({j \in K : j < k}) = n - 1

\* C2: the list returned is the subsequence of all_contributions made of the
\* first occurrence of each (Date, Contributor Name, Amount), in input order,
\* and no two of its records share a key.
C2_DedupKeepsFirstOccurrences ==
    Returned =>
        LET out == result[1]
            K   == FirstOccurrences(all_contributions)
        IN  /\ Len(out) = Cardinality(K)
            /\ \A n \in 1..Len(out) : out[n] = all_contributions[Nth(K, n)]
            /\ \A m, n \in 1..Len(out) :
                  (out[m].Date = out[n].Date
                   /\ out[m].ContributorName = out[n].ContributorName
                   /\ out[m].Amount = out[n].Amount) => m = n

\* C2 witness: a later record dropped although its address differs from the
\* survivor's, with a record of another key between them.
C2_Witness ==
    /\ Returned
    /\ Len(result[1]) >= 2
    /\ \E j, k \in 1..Len(all_contributions) :
          /\ j + 1 < k
          /\ all_contributions[j].Date = all_contributions[k].Date
          /\ all_contributions[j].ContributorName = all_contributions[k].ContributorName
          /\ all_contributions[j].Amount = all_contributions[k].Amount
          /\ all_contributions[j].Address # all_contributions[k].Address
          /\ all_contributions[j + 1].Date # all_contributions[j].Date

\* The page's text holds the section marker phrase, letter for letter.
HoldsMarker(text) == text # None /\ Contains(text[1], SectionMarker)

\* C3: every page that was scanned, and every page a record (appended or
\* returned) comes from, holds the section marker phrase: a page without it,
\* absent and empty text included, is never scanned and contributes nothing.
C3_PagesWithoutMarkerContributeNothing ==
    /\ \A p \in scanned : HoldsMarker(pdf[p + 1])
    /\ \A k \in 1..Len(all_contributions) :
          HoldsMarker(pdf[all_contributions[k].Page])
    /\ Returned => \A k \in 1..Len(result[1]) : HoldsMarker(pdf[result[1][k].Page])

\* C3 witness: records returned from a document one of whose pages holds an
\* anchor line under the phrase in another case, and was not scanned.
C3_Witness ==
    /\ Returned
    /\ Len(result[1]) > 0
    /\ \E p \in 0..(Len(pdf) - 1) :
          /\ pdf[p + 1] # None
          /\ ~Contains(pdf[p + 1][1], SectionMarker)
          /\ Contains(pdf[p + 1][1], "Monetary Political Contributions")
          /\ Contains(pdf[p + 1][1], AnchorJohn)
          /\ p \notin scanned

\* <date> <text> <amount>, the amount with or without a leading "$".
AnchorFormAnySymbol(s) ==
    \E p \in 1..Len(s) :
        /\ DateAt(s, p)
        /\ \E n \in (p + 11)..Len(s), m \in (p + 11)..Len(s) :
              /\ \A t \in (p + 10)..(n - 1) : Char(s, t) \in SpaceChars
              /\ m >= n
              /\ Char(s, m + 1) \in SpaceChars
              /\ LET d == RunEnd(s, m + 1, SpaceChars) + 1
                 IN  \/ Char(s, d) = "$" /\ AmountEnd(s, d + 1) > 0
                     \/ AmountEnd(s, d) > 0

AnchorFormTable == [l \in KnownLines |-> AnchorFormAnySymbol(l)]

\* "$", digits and commas, ".", two digits.
CanonicalAmount(a) ==
    /\ Len(a) >= 5
    /\ Char(a, 1) = "$"
    /\ AmountEnd(a, 2) = Len(a)

\* C4 (the claim as stated): every record's amount is "$" followed by the
\* digits with exactly two decimals, and every line of a relevant page of the
\* form <date> <text> <amount> yields a record, with or without a "$" before
\* the amount.
C4_AnchorWithOrWithoutSymbol ==
    /\ \A k \in 1..Len(all_contributions) : CanonicalAmount(all_contributions[k].Amount)
    /\ (pc = "scan" /\ i > Len(lines)) =>
          \A k \in 1..Len(lines) :
              (lines[k] \in KnownLines /\ AnchorFormTable[lines[k]]) =>
                  RecordsAt(page_num, k) # {}

\* The lines of the search window of record h of the page being scanned.
WindowOf(h) ==
    (history[h].line + 1)..(SearchEnd(lines, history[h].line) - 1)

FooterPhrases == {FOOTER_PATTERNS[k] : k \in 1..Len(FOOTER_PATTERNS)}

\* C5: no candidate of a record is a line should_skip_line holds of, and a
\* record whose window holds, besides its address line, nothing but lines
\* that are exactly a footer phrase has "No Data" as Occupation and Employer.
C5_BoilerplateNeverCandidate ==
    pc = "scan" =>
        \A h \in OnPage :
            /\ \A c \in 1..Len(history[h].candidates) :
                  ~should_skip_line(lines[history[h].candidates[c]])
            /\ (\A j \in WindowOf(h) :
                   j = history[h].address \/ lines[j] \in FooterPhrases)
               => (all_contributions[h].Occupation = NoData
                   /\ all_contributions[h].Employer = NoData)

\* C5 witness: a record whose window is its address line and one line that
\* is exactly a footer phrase.
C5_Witness ==
    /\ pc = "scan"
    /\ \E h \in OnPage :
          /\ history[h].address # 0
          /\ Cardinality(WindowOf(h)) = 2
          /\ \E j \in WindowOf(h) : lines[j] \in FooterPhrases
          /\ \A j \in WindowOf(h) :
                j = history[h].address \/ lines[j] \in FooterPhrases
          /\ all_contributions[h].Occupation = NoData

\* The whitespace-separated tokens of everything after the first comma.
AfterFirstComma(address) ==
    SplitWords(SubSeq(address, FindFrom(address, ",", 1) + 1, Len(address)))

\* C6 (the claim as stated): for a record with an address line, City is the
\* text before the first comma, State the first token after the first comma
\* and Zip the second, each "No Data" only when its own token is missing.
C6_AddressPartsIndependent ==
    pc = "scan" =>
        \A h \in OnPage :
            history[h].address # 0 =>
                LET address == lines[history[h].address]
                    rest    == AfterFirstComma(address)
                    r       == all_contributions[h]
                IN  /\ r.Address = address
                    /\ r.City = Strip(SubSeq(address, 1, FindFrom(address, ",", 1) - 1))
                    /\ r.State = IF Len(rest) >= 1 THEN rest[1] ELSE NoData
                    /\ r.Zip = IF Len(rest) >= 2 THEN rest[2] ELSE NoData

\* C7: once an error was raised, no list is returned, the records appended
\* before it included, and the message returned is not empty.
C7_ErrorReturnsNoPartialResult ==
    raised => (pc = "done" /\ result = None /\ error # None /\ error[1] # "")

\* C7 witness: an error raised during the second relevant page, after the
\* records of the first were appended.
C7_Witness ==
    /\ raised
    /\ Len(all_contributions) > 0
    /\ next_page = 2
    /\ next_page <= Len(schedule_a1_pages)

\* C8: every candidate of a record lies after its anchor line and before
\* min(i + 15, lineCount), and no line from the anchor's successor up to the
\* candidate has the next contribution's shape.
C8_CandidatesBeforeNextAnchor ==
    pc = "scan" =>
        \A h \in OnPage :
            \A c \in 1..Len(history[h].candidates) :
                LET j == history[h].candidates[c]
                IN  /\ history[h].line < j
                    /\ j < Min(history[h].line + SearchWindow, Len(lines) + 1)
                    /\ \A k \in (history[h].line + 1)..j :
                          ~NextContributionShape(lines[k])

\* C8 witness: a record with candidates, the line after the last of them the
\* next anchor, and a plain line after that anchor.
C8_Witness ==
    /\ pc = "scan"
    /\ \E h \in OnPage :
          /\ Len(history[h].candidates) >= 2
          /\ LET last == history[h].candidates[Len(history[h].candidates)]
             IN  /\ last + 2 <= Len(lines)
                 /\ IsAnchor(lines[last + 1])
                 /\ ~should_skip_line(lines[last + 2])
                 /\ ~IsAnchor(lines[last + 2])

\* C9: every iteration of the scan runs with the cursor inside the line
\* array, leaves the array as it is and moves the cursor forward by at least
\* one line: Len(lines) + 1 - i decreases at every iteration and the loop is
\* left once it reaches 0.
C9_ScanTerminates ==
    [][(pc = "scan" /\ pc' = "scan") =>
          (i >= 1 /\ i <= Len(lines) /\ i' >= i + 1 /\ lines' = lines)]_vars

\* C9 witness: the cursor past the end of a page after a jump to a following
\* anchor and a default skip.
C9_Witness ==
    /\ pc = "scan"
    /\ i > Len(lines) + 1
    /\ \E a, b \in OnPage : history[b].line > history[a].line

\* C10 (the claim as stated): the address line of a record is neither the
\* next anchor line nor a line after it, and no two records of a page have
\* the same address line.
C10_AddressBeforeNextAnchor ==
    pc = "scan" =>
        /\ \A h \in OnPage :
              history[h].address # 0 =>
                  \A j \in (history[h].line + 1)..history[h].address :
                      ~IsAnchor(lines[j])
        /\ \A g, h \in OnPage :
              (history[g].address # 0 /\ history[g].address = history[h].address)
                  => g = h

=============================================================================
